---- MODULE Spec2Model ----
(***************************************************************************)
(* A model of the sorting engine of sorting_algo_custom:                   *)
(*   - the seven reference sorts and the seven step-emitting generators    *)
(*     of src/sorting.py, as operators computed the way the code computes  *)
(*     them (a generator is the sequence of the snapshots it yields);      *)
(*   - the SortData / CosmiSort driver of src/models/sort_data.py and      *)
(*     src/ui/visualizer.py;                                               *)
(*   - the frame loop of src/main.py (VisualiseurtriQuantique).            *)
(* Python lists are sequences; every index kept in a snapshot is the       *)
(* 0-based index of the code, and At/SetAt/Swap translate it.              *)
(***************************************************************************)
EXTENDS Integers, Sequences, FiniteSets, TLC

\* ------------------------------------------------------------------ bounds
\* Longest input list handed to a sort.
MaxLen == 4
\* Elements are drawn from 1..MaxVal.
MaxVal == 3

Values == 1..MaxVal

\* All lists over S of length at most n.
ListsUpTo(S, n) == UNION {[1..k -> S] : k \in 0..n}

Inputs == ListsUpTo(Values, MaxLen)

\* ------------------------------------------------------- list primitives
\* data[i] with the code's 0-based index.
At(d, i) == d[i + 1]

\* data[i] = v
SetAt(d, i, v) == [d EXCEPT ![i + 1] = v]

\* A swap that loses one of the two values (mutant of Swap).
SwapLossy(d, i, j) == [d EXCEPT ![i + 1] = d[j + 1]]

\* data[i], data[j] = data[j], data[i]
Swap(d, i, j) == [d EXCEPT ![i + 1] = d[j + 1], ![j + 1] = d[i + 1]]

\* list(range(a, b))
RangeList(a, b) == [k \in 1..(IF b > a THEN b - a ELSE 0) |-> a + k - 1]

\* arr[a:b], for 0 <= a <= b <= len(arr)
Slice(d, a, b) == [k \in 1..(b - a) |-> d[a + k]]

\* list(data) / data.copy(): a list with the same elements.
CopyList(d) == [k \in 1..Len(d) |-> d[k]]

\* ------------------------------------------------- properties of a list
IsSorted(d) == \A k \in 1..(Len(d) - 1) : d[k] <= d[k + 1]

Count(d, v) == Cardinality({k \in 1..Len(d) : d[k] = v})

\* Same multiset of values.
IsPermutation(a, b) ==
    /\ Len(a) = Len(b)
    /\ \A k \in 1..Len(a) : Count(a, a[k]) = Count(b, a[k])

\* ============================================================ reference sorts
\* src/sorting.py, lines 8-214.  Each loop of the code is one recursive
\* operator over the loop's variables.

\* selection_sort: the inner loop "for j in range(i + 1, n)".
RECURSIVE SelectionFindMin(_, _, _)
SelectionFindMin(d, j, min_idx) ==
    IF j >= Len(d) THEN min_idx
    ELSE SelectionFindMin(d, j + 1, IF At(d, j) < At(d, min_idx) THEN j ELSE min_idx)

\* selection_sort: the outer loop "for i in range(n)".
RECURSIVE SelectionLoop(_, _)
SelectionLoop(d, i) ==
    IF i >= Len(d) THEN d
    ELSE SelectionLoop(Swap(d, i, SelectionFindMin(d, i + 1, i)), i + 1)

selection_sort(data) == SelectionLoop(data, 0)

\* bubble_sort: the inner loop "for j in range(0, n - i - 1)".
RECURSIVE BubblePass(_, _, _, _)
BubblePass(d, i, j, swapped) ==
    IF j >= Len(d) - i - 1 THEN [d |-> d, swapped |-> swapped]
    ELSE IF At(d, j) > At(d, j + 1)
         THEN BubblePass(Swap(d, j, j + 1), i, j + 1, TRUE)
         ELSE BubblePass(d, i, j + 1, swapped)

\* bubble_sort: the outer loop "for i in range(n)", left by break.
RECURSIVE BubbleLoop(_, _)
BubbleLoop(d, i) ==
    IF i >= Len(d) THEN d
    ELSE LET r == BubblePass(d, i, 0, FALSE)
         IN  IF ~r.swapped THEN r.d ELSE BubbleLoop(r.d, i + 1)

bubble_sort(data) == BubbleLoop(data, 0)

\* insertion_sort: "while j >= 0 and key < data[j]".
RECURSIVE InsertionShift(_, _, _)
InsertionShift(d, j, key) ==
    IF j >= 0 /\ key < At(d, j)
    THEN InsertionShift(SetAt(d, j + 1, At(d, j)), j - 1, key)
    ELSE SetAt(d, j + 1, key)

\* insertion_sort: "for i in range(1, len(data))".
RECURSIVE InsertionLoop(_, _)
InsertionLoop(d, i) ==
    IF i >= Len(d) THEN d
    ELSE InsertionLoop(InsertionShift(d, i - 1, At(d, i)), i + 1)

insertion_sort(data) == InsertionLoop(data, 1)

\* merge_sort: the three merging loops over sorted_left and sorted_right.
RECURSIVE MergeHalves(_, _, _, _, _)
MergeHalves(l, r, i, j, merged) ==
    LET k == i + j IN
    IF i < Len(l) /\ j < Len(r)
    THEN IF At(l, i) < At(r, j)
         THEN MergeHalves(l, r, i + 1, j, SetAt(merged, k, At(l, i)))
         ELSE MergeHalves(l, r, i, j + 1, SetAt(merged, k, At(r, j)))
    ELSE IF i < Len(l)
    THEN MergeHalves(l, r, i + 1, j, SetAt(merged, k, At(l, i)))
    ELSE IF j < Len(r)
    THEN MergeHalves(l, r, i, j + 1, SetAt(merged, k, At(r, j)))
    ELSE merged

RECURSIVE merge_sort(_)
merge_sort(data) ==
    IF Len(data) > 1
    THEN LET mid == Len(data) \div 2
             sorted_left == merge_sort(Slice(data, 0, mid))
             sorted_right == merge_sort(Slice(data, mid, Len(data)))
         IN  MergeHalves(sorted_left, sorted_right, 0, 0, [k \in 1..Len(data) |-> 0])
    ELSE data

\* _partition: "for j in range(low, high)".
RECURSIVE PartitionLoop(_, _, _, _, _)
PartitionLoop(d, j, high, i, pivot) ==
    IF j >= high THEN [d |-> d, i |-> i]
    ELSE IF At(d, j) <= pivot
         THEN PartitionLoop(Swap(d, i + 1, j), j + 1, high, i + 1, pivot)
         ELSE PartitionLoop(d, j + 1, high, i, pivot)

\* _partition(data, low, high): the list after it and the index it returns.
partition(data, low, high) ==
    LET r == PartitionLoop(data, low, high, low - 1, At(data, high))
    IN  [d |-> Swap(r.d, r.i + 1, high), pi |-> r.i + 1]

\* quick_sort(data, low, high) with both bounds given.
RECURSIVE QuickSortRange(_, _, _)
QuickSortRange(d, low, high) ==
    IF low < high
    THEN LET p == partition(d, low, high)
         IN  QuickSortRange(QuickSortRange(p.d, low, p.pi - 1), p.pi + 1, high)
    ELSE d

\* quick_sort(data): low = 0 and high = len(data) - 1.
quick_sort(data) == QuickSortRange(data, 0, Len(data) - 1)

\* _heapify(data, n, i)
RECURSIVE heapify(_, _, _)
heapify(d, n, i) ==
    LET left == 2 * i + 1
        right == 2 * i + 2
        l1 == IF left < n /\ At(d, left) > At(d, i) THEN left ELSE i
        largest == IF right < n /\ At(d, right) > At(d, l1) THEN right ELSE l1
    IN  IF largest # i THEN heapify(Swap(d, i, largest), n, largest) ELSE d

\* heap_sort: "for i in range(n // 2 - 1, -1, -1)".
RECURSIVE HeapBuild(_, _)
HeapBuild(d, i) ==
    IF i < 0 THEN d ELSE HeapBuild(heapify(d, Len(d), i), i - 1)

\* heap_sort: "for i in range(n - 1, 0, -1)".
RECURSIVE HeapExtract(_, _)
HeapExtract(d, i) ==
    IF i < 1 THEN d ELSE HeapExtract(heapify(Swap(d, i, 0), i, 0), i - 1)

heap_sort(data) ==
    HeapExtract(HeapBuild(data, (Len(data) \div 2) - 1), Len(data) - 1)

\* _get_next_gap(gap)
get_next_gap(gap) ==
    LET g == (gap * 10) \div 13 IN IF g < 1 THEN 1 ELSE g

\* comb_sort: "for i in range(0, n - gap)".
RECURSIVE CombPass(_, _, _, _)
CombPass(d, gap, i, swapped) ==
    IF i >= Len(d) - gap THEN [d |-> d, swapped |-> swapped]
    ELSE IF At(d, i) > At(d, i + gap)
         THEN CombPass(Swap(d, i, i + gap), gap, i + 1, TRUE)
         ELSE CombPass(d, gap, i + 1, swapped)

\* comb_sort: "while gap != 1 or swapped".
RECURSIVE CombLoop(_, _, _)
CombLoop(d, gap, swapped) ==
    IF gap # 1 \/ swapped
    THEN LET g == get_next_gap(gap)
             r == CombPass(d, g, 0, FALSE)
         IN  CombLoop(r.d, g, r.swapped)
    ELSE d

comb_sort(data) == CombLoop(data, Len(data), TRUE)

\* ======================================================= step-emitting sorts
\* src/sorting.py, lines 218-541.  A generator is modelled by the sequence of
\* the snapshots it yields, in order.  A loop state st carries the working
\* list data_copy (st.d) and the snapshots yielded so far (st.out); a
\* snapshot is a record with the keys of the yielded dict, so that
\* "key in state" is  "key" \in DOMAIN state.  The key 'sorted_ μέχρι' of
\* bubble_sort_visual is written sorted_until.

\* yield snap
Yield(st, snap) == [st EXCEPT !.out = Append(@, snap)]

\* ---- selection_sort_visual
\* SelectionVisualInner moving the candidate on a tie too, "<=" for "<": it
\* ends on the rightmost minimum (mutant of SelectionVisualInner).
RECURSIVE SelectionVisualInnerLastMin(_, _, _, _)
SelectionVisualInnerLastMin(st, i, j, min_idx) ==
    IF j >= Len(st.d) THEN [st |-> st, min_idx |-> min_idx]
    ELSE LET s1 == Yield(st, [data |-> CopyList(st.d), compare |-> <<min_idx, j>>,
                              highlight |-> <<i>>])
         IN  IF At(st.d, j) <= At(st.d, min_idx)
             THEN SelectionVisualInnerLastMin(
                      Yield(s1, [data |-> CopyList(st.d), highlight |-> <<i>>,
                                 min_candidate |-> j]),
                      i, j + 1, j)
             ELSE SelectionVisualInnerLastMin(s1, i, j + 1, min_idx)

\* "for j in range(i + 1, n)"
RECURSIVE SelectionVisualInner(_, _, _, _)
SelectionVisualInner(st, i, j, min_idx) ==
    IF j >= Len(st.d) THEN [st |-> st, min_idx |-> min_idx]
    ELSE LET s1 == Yield(st, [data |-> CopyList(st.d), compare |-> <<min_idx, j>>,
                              highlight |-> <<i>>])
         IN  IF At(st.d, j) < At(st.d, min_idx)
             THEN SelectionVisualInner(
                      Yield(s1, [data |-> CopyList(st.d), highlight |-> <<i>>,
                                 min_candidate |-> j]),
                      i, j + 1, j)
             ELSE SelectionVisualInner(s1, i, j + 1, min_idx)

\* "for i in range(n)"
RECURSIVE SelectionVisualLoop(_, _)
SelectionVisualLoop(st, i) ==
    IF i >= Len(st.d) THEN st
    ELSE LET s0 == Yield(st, [data |-> CopyList(st.d), highlight |-> <<i>>,
                              min_candidate |-> i])
             r == SelectionVisualInner(s0, i, i + 1, i)
             swapped == Swap(r.st.d, i, r.min_idx)
         IN  IF r.min_idx # i
             THEN SelectionVisualLoop(
                      Yield([r.st EXCEPT !.d = swapped],
                            [data |-> CopyList(swapped), swap |-> <<i, r.min_idx>>]),
                      i + 1)
             ELSE SelectionVisualLoop(
                      Yield(r.st, [data |-> CopyList(r.st.d), final |-> <<i>>]),
                      i + 1)

\* selection_sort_visual without its last yield (mutant of
\* selection_sort_visual).
selection_sort_visual_unfinished(data) ==
    SelectionVisualLoop([d |-> CopyList(data), out |-> <<>>], 0).out

selection_sort_visual(data) ==
    LET st == SelectionVisualLoop([d |-> CopyList(data), out |-> <<>>], 0)
    IN  Yield(st, [data |-> CopyList(st.d), final |-> RangeList(0, Len(data))]).out

\* ---- bubble_sort_visual
\* "for j in range(0, n - i - 1)"
RECURSIVE BubbleVisualPass(_, _, _, _)
BubbleVisualPass(st, i, j, swapped) ==
    LET n == Len(st.d) IN
    IF j >= n - i - 1 THEN [st |-> st, swapped |-> swapped]
    ELSE LET s1 == Yield(st, [data |-> CopyList(st.d), compare |-> <<j, j + 1>>,
                              sorted_until |-> n - i])
             d2 == Swap(st.d, j, j + 1)
         IN  IF At(st.d, j) > At(st.d, j + 1)
             THEN BubbleVisualPass(
                      Yield([s1 EXCEPT !.d = d2],
                            [data |-> CopyList(d2), swap |-> <<j, j + 1>>,
                             sorted_until |-> n - i]),
                      i, j + 1, TRUE)
             ELSE BubbleVisualPass(s1, i, j + 1, swapped)

\* BubbleVisualLoop without the early exit: a pass without a swap is
\* followed by the next pass (mutant of BubbleVisualLoop).
RECURSIVE BubbleVisualLoopNoBreak(_, _)
BubbleVisualLoopNoBreak(st, i) ==
    LET n == Len(st.d) IN
    IF i >= n THEN st
    ELSE LET r == BubbleVisualPass(st, i, 0, FALSE)
             s1 == Yield(r.st, [data |-> CopyList(r.st.d), final |-> <<n - 1 - i>>,
                                sorted_until |-> n - i])
         IN  BubbleVisualLoopNoBreak(s1, i + 1)

\* "for i in range(n)", left by break after a pass without a swap
RECURSIVE BubbleVisualLoop(_, _)
BubbleVisualLoop(st, i) ==
    LET n == Len(st.d) IN
    IF i >= n THEN st
    ELSE LET r == BubbleVisualPass(st, i, 0, FALSE)
             s1 == Yield(r.st, [data |-> CopyList(r.st.d), final |-> <<n - 1 - i>>,
                                sorted_until |-> n - i])
         IN  IF ~r.swapped
             THEN Yield(s1, [data |-> CopyList(s1.d), final |-> RangeList(0, n),
                             sorted_until |-> 0])
             ELSE BubbleVisualLoop(s1, i + 1)

bubble_sort_visual(data) ==
    LET st == BubbleVisualLoop([d |-> CopyList(data), out |-> <<>>], 0)
    IN  Yield(st, [data |-> CopyList(st.d), final |-> RangeList(0, Len(data)),
                   sorted_until |-> 0]).out

\* ---- insertion_sort_visual
\* "while j >= 0", left by break; returns the loop state and the last j
RECURSIVE InsertionVisualShift(_, _, _, _)
InsertionVisualShift(st, i, j, key) ==
    IF j < 0 THEN [st |-> st, j |-> j]
    ELSE LET s1 == Yield(st, [data |-> CopyList(st.d), highlight |-> <<i>>,
                              compare |-> <<j>>])
             d2 == SetAt(st.d, j + 1, At(st.d, j))
         IN  IF key < At(st.d, j)
             THEN InsertionVisualShift(
                      Yield([s1 EXCEPT !.d = d2],
                            [data |-> CopyList(d2), highlight |-> <<i>>,
                             shift |-> <<j, j + 1>>]),
                      i, j - 1, key)
             ELSE [st |-> s1, j |-> j]

\* "for i in range(1, len(data_copy))"
RECURSIVE InsertionVisualLoop(_, _)
InsertionVisualLoop(st, i) ==
    IF i >= Len(st.d) THEN st
    ELSE LET key == At(st.d, i)
             s0 == Yield(st, [data |-> CopyList(st.d), highlight |-> <<i>>,
                              compare |-> <<>>])
             r == InsertionVisualShift(s0, i, i - 1, key)
             d2 == SetAt(r.st.d, r.j + 1, key)
         IN  InsertionVisualLoop(
                 Yield([r.st EXCEPT !.d = d2],
                       [data |-> CopyList(d2), insert |-> <<r.j + 1>>,
                        final |-> RangeList(0, i + 1)]),
                 i + 1)

insertion_sort_visual(data) ==
    LET s0 == Yield([d |-> CopyList(data), out |-> <<>>],
                    [data |-> CopyList(data), final |-> <<0>>])
        st == InsertionVisualLoop(s0, 1)
    IN  Yield(st, [data |-> CopyList(st.d), final |-> RangeList(0, Len(st.d))]).out

\* ---- merge_sort_visual
\* The loop state also carries the dict subarrays (st.sub), a function from
\* the pairs <<start, end>> to a depth.  arr and data_copy are the same list
\* (the call is _merge_sort_internal(data_copy, ...)), so the two writes
\* arr[k] = x; data_copy[k] = x are one write.  max_depth is written and
\* never read, and is left out.

\* subarrays[key] = depth
DictSet(sub, key, depth) ==
    [x \in DOMAIN sub \cup {key} |-> IF x = key THEN depth ELSE sub[x]]

\* if key in subarrays: del subarrays[key]
DictDel(sub, key) == [x \in DOMAIN sub \ {key} |-> sub[x]]

\* The three merging loops: "while i < len(left_half) and j < len(right_half)",
\* "while i < len(left_half)", "while j < len(right_half)".
RECURSIVE MergeVisualLoop(_, _, _, _, _, _, _, _, _)
MergeVisualLoop(st, left_half, right_half, i, j, k, start, mid, depth) ==
    LET takeLeft == SetAt(st.d, k, At(left_half, i))
        takeRight == SetAt(st.d, k, At(right_half, j))
        wrote(s, d2) == Yield([s EXCEPT !.d = d2],
                              [data |-> CopyList(d2), insert |-> <<k>>,
                               depth |-> depth, subarrays |-> st.sub])
    IN
    IF i < Len(left_half) /\ j < Len(right_half)
    THEN LET s1 == Yield(st, [data |-> CopyList(st.d),
                              compare |-> <<start + i, mid + j>>,
                              depth |-> depth, subarrays |-> st.sub])
         IN  IF At(left_half, i) <= At(right_half, j)
             THEN MergeVisualLoop(wrote(s1, takeLeft), left_half, right_half,
                                  i + 1, j, k + 1, start, mid, depth)
             ELSE MergeVisualLoop(wrote(s1, takeRight), left_half, right_half,
                                  i, j + 1, k + 1, start, mid, depth)
    ELSE IF i < Len(left_half)
    THEN MergeVisualLoop(wrote(st, takeLeft), left_half, right_half,
                         i + 1, j, k + 1, start, mid, depth)
    ELSE IF j < Len(right_half)
    THEN MergeVisualLoop(wrote(st, takeRight), left_half, right_half,
                         i, j + 1, k + 1, start, mid, depth)
    ELSE st

\* The snapshot of a one-element sub-list that holds only that sub-list
\* (mutant of MergeLeafSnapshot).
MergeLeafSnapshotOfSlice(st, start, depth) ==
    [data |-> Slice(st.d, start, start + 1), highlight |-> <<start>>,
     depth |-> depth, subarrays |-> st.sub]

\* The snapshot yielded for a one-element sub-list (the base case).
MergeLeafSnapshot(st, start, depth) ==
    [data |-> CopyList(st.d), highlight |-> <<start>>,
     depth |-> depth, subarrays |-> st.sub]

\* _merge_sort_internal(arr, start, end, depth)
RECURSIVE merge_sort_internal(_, _, _, _)
merge_sort_internal(st, start, end, depth) ==
    IF end - start <= 1
    THEN IF start < end
         THEN Yield(st, MergeLeafSnapshot(st, start, depth))
         ELSE st
    ELSE LET mid == (start + end) \div 2
             sub1 == DictSet(DictSet(st.sub, <<start, mid>>, depth + 1),
                             <<mid, end>>, depth + 1)
             s1 == Yield([st EXCEPT !.sub = sub1],
                         [data |-> CopyList(st.d), split |-> <<start, mid, end>>,
                          depth |-> depth, subarrays |-> sub1])
             s2 == merge_sort_internal(s1, start, mid, depth + 1)
             s3 == merge_sort_internal(s2, mid, end, depth + 1)
             left_half == Slice(s3.d, start, mid)
             right_half == Slice(s3.d, mid, end)
             s4 == Yield(s3, [data |-> CopyList(s3.d),
                              merge_start |-> <<start, mid, end>>,
                              depth |-> depth, subarrays |-> s3.sub])
             s5 == MergeVisualLoop(s4, left_half, right_half, 0, 0, start,
                                   start, mid, depth)
             sub2 == DictDel(DictDel(s5.sub, <<start, mid>>), <<mid, end>>)
         IN  Yield([s5 EXCEPT !.sub = sub2],
                   [data |-> CopyList(s5.d), final |-> RangeList(start, end),
                    depth |-> depth, subarrays |-> sub2])

merge_sort_visual(data) ==
    LET s0 == [d |-> CopyList(data), out |-> <<>>, sub |-> <<>>]
        st == merge_sort_internal(s0, 0, Len(s0.d), 0)
    IN  Yield(st, [data |-> CopyList(st.d), final |-> RangeList(0, Len(st.d)),
                   depth |-> 0, subarrays |-> <<>>]).out

\* ---- quick_sort_visual
\* arr and data_copy are the same list (the call is _quick_sort(data_copy, ...)):
\* each exchange of the code is the statement on arr followed by the same
\* statement on data_copy, both applied to that one list.

\* arr[i], arr[j] = arr[j], arr[i]; data_copy[i], data_copy[j] = data_copy[j], data_copy[i]
SwapBoth(d, i, j) == Swap(Swap(d, i, j), i, j)

\* _partition: "for j in range(low, high)"
RECURSIVE QuickVisualScan(_, _, _, _, _, _)
QuickVisualScan(st, low, high, j, i, pivot) ==
    IF j >= high THEN [st |-> st, i |-> i]
    ELSE LET s1 == Yield(st, [data |-> CopyList(st.d), compare |-> <<j, high>>,
                              pivot |-> high, range |-> <<low, high>>])
             d2 == SwapBoth(st.d, i + 1, j)
         IN  IF At(st.d, j) <= pivot
             THEN IF i + 1 # j
                  THEN QuickVisualScan(
                           Yield([s1 EXCEPT !.d = d2],
                                 [data |-> CopyList(d2), swap |-> <<i + 1, j>>,
                                  pivot |-> high, range |-> <<low, high>>]),
                           low, high, j + 1, i + 1, pivot)
                  ELSE QuickVisualScan(s1, low, high, j + 1, i + 1, pivot)
             ELSE QuickVisualScan(s1, low, high, j + 1, i, pivot)

\* _partition(arr, low, high) of quick_sort_visual: the states it yields are
\* appended to st.out
quick_visual_partition(st, low, high) ==
    LET pivot == At(st.d, high)
        s0 == Yield(st, [data |-> CopyList(st.d), pivot |-> high,
                         range |-> <<low, high>>])
        r == QuickVisualScan(s0, low, high, low, low - 1, pivot)
        d2 == SwapBoth(r.st.d, r.i + 1, high)
    IN  IF r.i + 1 # high
        THEN Yield([r.st EXCEPT !.d = d2],
                   [data |-> CopyList(d2), swap |-> <<r.i + 1, high>>,
                    pivot_placed |-> r.i + 1, range |-> <<low, high>>])
        ELSE Yield(r.st, [data |-> CopyList(r.st.d), pivot_placed |-> r.i + 1,
                          range |-> <<low, high>>])

\* "for state in pi_generator: if 'pivot_placed' in state: pi = state['pivot_placed']"
\* over the states from position k on; pi starts as None (-1 here)
RECURSIVE PivotPlacedIn(_, _, _)
PivotPlacedIn(states, k, pi) ==
    IF k > Len(states) THEN pi
    ELSE PivotPlacedIn(states, k + 1,
                       IF "pivot_placed" \in DOMAIN states[k]
                       THEN states[k].pivot_placed ELSE pi)

\* _quick_sort(arr, low, high)
RECURSIVE quick_visual_sort(_, _, _)
quick_visual_sort(st, low, high) ==
    IF low < high
    THEN LET s0 == Yield(st, [data |-> CopyList(st.d),
                              highlight |-> RangeList(low, high + 1),
                              range |-> <<low, high>>])
             s1 == quick_visual_partition(s0, low, high)
             pi == PivotPlacedIn(s1.out, Len(s0.out) + 1, -1)
             s2 == Yield(s1, [data |-> CopyList(s1.d), final |-> <<pi>>,
                              range |-> <<low, high>>])
         IN  quick_visual_sort(quick_visual_sort(s2, low, pi - 1), pi + 1, high)
    ELSE IF low = high
    THEN Yield(st, [data |-> CopyList(st.d), final |-> <<low>>,
                    range |-> <<low, high>>])
    ELSE st

quick_sort_visual(data) ==
    LET s0 == [d |-> CopyList(data), out |-> <<>>]
        st == quick_visual_sort(s0, 0, Len(data) - 1)
    IN  IF Len(data) <= 1
        THEN <<[data |-> CopyList(data), final |-> RangeList(0, Len(data))]>>
        ELSE Yield(st, [data |-> CopyList(st.d),
                        final |-> RangeList(0, Len(st.d))]).out

\* ---- heap_sort_visual
\* _heapify(arr, n, i) of heap_sort_visual.  arr and data_copy are the same
\* list (the calls are _heapify(data_copy, ...)), so its exchange is SwapBoth.
\* Every snapshot it yields carries heap_level = 'build'.
RECURSIVE heap_visual_heapify(_, _, _)
heap_visual_heapify(st, n, i) ==
    LET left == 2 * i + 1
        right == 2 * i + 2
        leftBigger == left < n /\ At(st.d, left) > At(st.d, i)
        l1 == IF leftBigger THEN left ELSE i
        s1 == IF left < n
              THEN Yield(st, [data |-> CopyList(st.d), compare |-> <<i, left>>,
                              heap_level |-> "build"])
              ELSE st
        s2 == IF leftBigger
              THEN Yield(s1, [data |-> CopyList(st.d), largest |-> left,
                              heap_level |-> "build"])
              ELSE s1
        rightBigger == right < n /\ At(st.d, right) > At(st.d, l1)
        largest == IF rightBigger THEN right ELSE l1
        s3 == IF right < n
              THEN Yield(s2, [data |-> CopyList(st.d), compare |-> <<l1, right>>,
                              heap_level |-> "build"])
              ELSE s2
        s4 == IF rightBigger
              THEN Yield(s3, [data |-> CopyList(st.d), largest |-> right,
                              heap_level |-> "build"])
              ELSE s3
        d2 == SwapBoth(st.d, i, largest)
    IN  IF largest # i
        THEN heap_visual_heapify(
                 Yield([s4 EXCEPT !.d = d2],
                       [data |-> CopyList(d2), swap |-> <<i, largest>>,
                        heap_level |-> "build"]),
                 n, largest)
        ELSE s4

\* "for i in range(n // 2 - 1, -1, -1)"
RECURSIVE HeapVisualBuild(_, _)
HeapVisualBuild(st, i) ==
    IF i < 0 THEN st
    ELSE HeapVisualBuild(
             heap_visual_heapify(
                 Yield(st, [data |-> CopyList(st.d), highlight |-> <<i>>,
                            heap_level |-> "build"]),
                 Len(st.d), i),
             i - 1)

\* HeapVisualExtract marking the whole extracted tail final at each
\* extraction (mutant of HeapVisualExtract).
RECURSIVE HeapVisualExtractCumulative(_, _)
HeapVisualExtractCumulative(st, i) ==
    IF i < 1 THEN st
    ELSE LET d2 == Swap(st.d, i, 0)
             s1 == Yield([st EXCEPT !.d = d2],
                         [data |-> CopyList(d2), swap |-> <<0, i>>,
                          heap_level |-> "extract"])
             s2 == Yield(s1, [data |-> CopyList(d2),
                              final |-> RangeList(i, Len(st.d)),
                              heap_level |-> "extract"])
         IN  HeapVisualExtractCumulative(heap_visual_heapify(s2, i, 0), i - 1)

\* "for i in range(n - 1, 0, -1)"
RECURSIVE HeapVisualExtract(_, _)
HeapVisualExtract(st, i) ==
    IF i < 1 THEN st
    ELSE LET d2 == Swap(st.d, i, 0)
             s1 == Yield([st EXCEPT !.d = d2],
                         [data |-> CopyList(d2), swap |-> <<0, i>>,
                          heap_level |-> "extract"])
             s2 == Yield(s1, [data |-> CopyList(d2), final |-> <<i>>,
                              heap_level |-> "extract"])
         IN  HeapVisualExtract(heap_visual_heapify(s2, i, 0), i - 1)

heap_sort_visual(data) ==
    LET n == Len(data)
        s0 == [d |-> CopyList(data), out |-> <<>>]
        st == HeapVisualExtract(HeapVisualBuild(s0, (n \div 2) - 1), n - 1)
    IN  Yield(st, [data |-> CopyList(st.d), final |-> RangeList(0, n)]).out

\* ---- comb_sort_visual
\* int(gap / shrink_factor) with shrink_factor = 1.3: the quotient of the
\* floating-point division, truncated.  For every gap from 0 to 200000 the
\* double-precision result is floor(10 * gap / 13), which is what is computed.
IntOfGapOverShrink(gap) == (gap * 10) \div 13

\* "for i in range(0, n - gap)"; sorted is the flag of the enclosing loop
RECURSIVE CombVisualPass(_, _, _, _)
CombVisualPass(st, gap, i, sorted) ==
    IF i >= Len(st.d) - gap THEN [st |-> st, sorted |-> sorted]
    ELSE LET j == i + gap
             s1 == Yield(st, [data |-> CopyList(st.d), compare |-> <<i, j>>,
                              gap |-> gap])
             d2 == Swap(st.d, i, j)
         IN  IF At(st.d, i) > At(st.d, j)
             THEN CombVisualPass(
                      Yield([s1 EXCEPT !.d = d2],
                            [data |-> CopyList(d2), swap |-> <<i, j>>, gap |-> gap]),
                      gap, i + 1, FALSE)
             ELSE CombVisualPass(s1, gap, i + 1, sorted)

\* CombVisualLoop yielding the gap it entered the turn with, not the one
\* just computed (mutant of CombVisualLoop).
RECURSIVE CombVisualLoopStaleGap(_, _, _)
CombVisualLoopStaleGap(st, gap, sorted) ==
    IF sorted THEN st
    ELSE LET g0 == IntOfGapOverShrink(gap)
             g == IF g0 <= 1 THEN 1 ELSE g0
             sorted1 == IF g0 <= 1 THEN TRUE ELSE sorted
             s1 == Yield(st, [data |-> CopyList(st.d), gap |-> gap])
             r == CombVisualPass(s1, g, 0, sorted1)
         IN  CombVisualLoopStaleGap(r.st, g, r.sorted)

\* "while not sorted"
RECURSIVE CombVisualLoop(_, _, _)
CombVisualLoop(st, gap, sorted) ==
    IF sorted THEN st
    ELSE LET g0 == IntOfGapOverShrink(gap)
             g == IF g0 <= 1 THEN 1 ELSE g0
             sorted1 == IF g0 <= 1 THEN TRUE ELSE sorted
             s1 == Yield(st, [data |-> CopyList(st.d), gap |-> g])
             r == CombVisualPass(s1, g, 0, sorted1)
         IN  CombVisualLoop(r.st, g, r.sorted)

comb_sort_visual(data) ==
    LET s0 == [d |-> CopyList(data), out |-> <<>>]
        st == CombVisualLoop(s0, Len(data), FALSE)
    IN  Yield(st, [data |-> CopyList(st.d), final |-> RangeList(0, Len(data))]).out

\* ================================================================== state
VARIABLES
    \* --- applying one sort of src/sorting.py to one input
    input,       \* the caller's list
    applied,     \* the function applied to it, "none" before
    result,      \* the list a reference sort leaves (merge_sort: returns)
    snapshots    \* every snapshot a step-emitting sort yields, in order

sortVars == <<input, applied, result, snapshots>>

VARIABLES
    \* --- SortData (src/models/sort_data.py)
    data,                \* self.data
    original_data,       \* self.original_data
    current_dataset_id,  \* self.current_dataset_id
    algorithm_stats,     \* self.algorithm_stats: name -> [steps |-> n]
    current_state,       \* self.current_state, <<>> for the empty dict
    current_algorithm,   \* self.current_algorithm
    is_sorting,          \* self.is_sorting
    data_is_state_data,  \* self.data and self.current_state['data'] are one list
    \* --- CosmiSort (src/ui/visualizer.py)
    sort_generator       \* self.sort_generator: the generator of SortData.start_sort

driverVars ==
    <<data, original_data, current_dataset_id, algorithm_stats, current_state,
      current_algorithm, is_sorting, data_is_state_data, sort_generator>>

VARIABLES
    \* --- VisualiseurtriQuantique (src/main.py)
    liste_originale,      \* self.liste_originale
    taille_liste,         \* self.taille_liste
    etat,                 \* self.etat, an EtatTri without its drawing traces
    algo_actif,           \* self.algo_actif
    parallele,            \* self.parallele
    en_cours,             \* self.en_cours
    en_pause,             \* self.en_pause
    animation_seulement   \* self.animation_seulement

mainVars ==
    <<liste_originale, taille_liste, etat, algo_actif, parallele, en_cours,
      en_pause, animation_seulement>>

VARIABLES
    \* --- the list objects of one SortData run (identity, not only value)
    heap,   \* object id -> the content of the list object
    refs    \* the references the run holds, as object ids, and its position

heapVars == <<heap, refs>>

vars == <<sortVars, driverVars, mainVars, heapVars>>

ReferenceSorts ==
    {"selection_sort", "bubble_sort", "insertion_sort", "merge_sort",
     "quick_sort", "heap_sort", "comb_sort"}

VisualSorts ==
    {"selection_sort_visual", "bubble_sort_visual", "insertion_sort_visual",
     "merge_sort_visual", "quick_sort_visual", "heap_sort_visual",
     "comb_sort_visual"}

\* ------------------------------------------ applying the sorts to an input
\* No generator object: self.sort_generator = None.
NoGenerator == [state |-> "none"]

\* The driver's variables while the sorts are applied directly: no
\* visualizer is constructed.
DriverUnused ==
    /\ data = <<>>
    /\ original_data = <<>>
    /\ current_dataset_id = 0
    /\ algorithm_stats = <<>>
    /\ current_state = <<>>
    /\ current_algorithm = ""
    /\ is_sorting = FALSE
    /\ data_is_state_data = FALSE
    /\ sort_generator = NoGenerator

\* EtatTri.reinitialiser(nouvelle_liste), and EtatTri(liste) as constructed
reinitialiser(nouvelle_liste) ==
    [liste |-> nouvelle_liste, indices_actifs |-> <<>>, etape |-> 0,
     termine |-> FALSE, temps_debut |-> 0, temps_fin |-> 0]

\* No list object is tracked (the specifications that follow values only).
NoRefs == [state |-> "idle"]

HeapUnused ==
    /\ heap = <<>>
    /\ refs = NoRefs

\* The frame loop's variables while it is not run.
MainUnused ==
    /\ liste_originale = <<>>
    /\ taille_liste = 0
    /\ etat = reinitialiser(<<>>)
    /\ algo_actif = "Selection"
    /\ parallele = FALSE
    /\ en_cours = FALSE
    /\ en_pause = FALSE
    /\ animation_seulement = FALSE

SortInit ==
    /\ input \in Inputs
    /\ applied = "none"
    /\ result = <<>>
    /\ snapshots = <<>>
    /\ DriverUnused
    /\ MainUnused
    /\ HeapUnused

\* A reference sort is called on a copy of the input (terminal_mode.py,
\* test_cas_speciaux: test_data = data.copy(); algo(test_data)).
ApplyReference(name, sorted_data) ==
    /\ applied = "none"
    /\ applied' = name
    /\ result' = sorted_data
    /\ UNCHANGED <<input, snapshots, driverVars, mainVars, heapVars>>

\* A step-emitting sort is called on the input and drained.
ApplyVisual(name, states) ==
    /\ applied = "none"
    /\ applied' = name
    /\ snapshots' = states
    /\ UNCHANGED <<input, result, driverVars, mainVars, heapVars>>

SelectionSort == ApplyReference("selection_sort", selection_sort(CopyList(input)))
BubbleSort == ApplyReference("bubble_sort", bubble_sort(CopyList(input)))
InsertionSort == ApplyReference("insertion_sort", insertion_sort(CopyList(input)))
MergeSort == ApplyReference("merge_sort", merge_sort(CopyList(input)))
QuickSort == ApplyReference("quick_sort", quick_sort(CopyList(input)))
HeapSort == ApplyReference("heap_sort", heap_sort(CopyList(input)))
CombSort == ApplyReference("comb_sort", comb_sort(CopyList(input)))

SelectionSortVisual == ApplyVisual("selection_sort_visual", selection_sort_visual(input))
BubbleSortVisual == ApplyVisual("bubble_sort_visual", bubble_sort_visual(input))
InsertionSortVisual == ApplyVisual("insertion_sort_visual", insertion_sort_visual(input))
MergeSortVisual == ApplyVisual("merge_sort_visual", merge_sort_visual(input))
QuickSortVisual == ApplyVisual("quick_sort_visual", quick_sort_visual(input))
HeapSortVisual == ApplyVisual("heap_sort_visual", heap_sort_visual(input))
CombSortVisual == ApplyVisual("comb_sort_visual", comb_sort_visual(input))

SortNext ==
    \/ SelectionSort
    \/ BubbleSort
    \/ InsertionSort
    \/ MergeSort
    \/ QuickSort
    \/ HeapSort
    \/ CombSort
    \/ SelectionSortVisual
    \/ BubbleSortVisual
    \/ InsertionSortVisual
    \/ MergeSortVisual
    \/ QuickSortVisual
    \/ HeapSortVisual
    \/ CombSortVisual

SortSpec == SortInit /\ [][SortNext]_vars

\* ================================================= merge_sort over keyed items
\* merge_sort compares the elements with < only.  For elements that carry a
\* key and compare by it (__lt__ on the key), two elements of equal key are
\* distinct objects: an element is a record of its key and of the position
\* it had in the input (tag).

\* a < b for keyed elements
KeyLess(a, b) == a.key < b.key

\* The lists of keyed elements: keys of Values, tagged by input position.
KeyedInputs ==
    {[k \in 1..Len(keys) |-> [key |-> keys[k], tag |-> k]] : keys \in Inputs}

\* merge_sort: the three merging loops, "if sorted_left[i] < sorted_right[j]".
RECURSIVE MergeHalvesKeyed(_, _, _, _, _)
MergeHalvesKeyed(l, r, i, j, merged) ==
    LET k == i + j IN
    IF i < Len(l) /\ j < Len(r)
    THEN IF KeyLess(At(l, i), At(r, j))
         THEN MergeHalvesKeyed(l, r, i + 1, j, SetAt(merged, k, At(l, i)))
         ELSE MergeHalvesKeyed(l, r, i, j + 1, SetAt(merged, k, At(r, j)))
    ELSE IF i < Len(l)
    THEN MergeHalvesKeyed(l, r, i + 1, j, SetAt(merged, k, At(l, i)))
    ELSE IF j < Len(r)
    THEN MergeHalvesKeyed(l, r, i, j + 1, SetAt(merged, k, At(r, j)))
    ELSE merged

RECURSIVE merge_sort_keyed(_)
merge_sort_keyed(items) ==
    IF Len(items) > 1
    THEN LET mid == Len(items) \div 2
             sorted_left == merge_sort_keyed(Slice(items, 0, mid))
             sorted_right == merge_sort_keyed(Slice(items, mid, Len(items)))
         IN  MergeHalvesKeyed(sorted_left, sorted_right, 0, 0,
                              [k \in 1..Len(items) |-> 0])
    ELSE items

\* ---- merge_sort_visual over keyed items
\* a <= b decided by < alone: the right element is taken on a tie (mutant of
\* KeyLessEq).
KeyLessEqStrict(a, b) == a.key < b.key

\* a <= b for keyed elements ("if left_half[i] <= right_half[j]")
KeyLessEq(a, b) == a.key <= b.key

\* The three merging loops of _merge_sort_internal, on keyed elements.
RECURSIVE MergeVisualLoopKeyed(_, _, _, _, _, _, _, _, _)
MergeVisualLoopKeyed(st, left_half, right_half, i, j, k, start, mid, depth) ==
    LET takeLeft == SetAt(st.d, k, At(left_half, i))
        takeRight == SetAt(st.d, k, At(right_half, j))
        wrote(s, d2) == Yield([s EXCEPT !.d = d2],
                              [data |-> CopyList(d2), insert |-> <<k>>,
                               depth |-> depth, subarrays |-> st.sub])
    IN
    IF i < Len(left_half) /\ j < Len(right_half)
    THEN LET s1 == Yield(st, [data |-> CopyList(st.d),
                              compare |-> <<start + i, mid + j>>,
                              depth |-> depth, subarrays |-> st.sub])
         IN  IF KeyLessEq(At(left_half, i), At(right_half, j))
             THEN MergeVisualLoopKeyed(wrote(s1, takeLeft), left_half,
                                       right_half, i + 1, j, k + 1, start, mid,
                                       depth)
             ELSE MergeVisualLoopKeyed(wrote(s1, takeRight), left_half,
                                       right_half, i, j + 1, k + 1, start, mid,
                                       depth)
    ELSE IF i < Len(left_half)
    THEN MergeVisualLoopKeyed(wrote(st, takeLeft), left_half, right_half,
                              i + 1, j, k + 1, start, mid, depth)
    ELSE IF j < Len(right_half)
    THEN MergeVisualLoopKeyed(wrote(st, takeRight), left_half, right_half,
                              i, j + 1, k + 1, start, mid, depth)
    ELSE st

\* _merge_sort_internal(arr, start, end, depth), on keyed elements
RECURSIVE merge_sort_internal_keyed(_, _, _, _)
merge_sort_internal_keyed(st, start, end, depth) ==
    IF end - start <= 1
    THEN IF start < end
         THEN Yield(st, MergeLeafSnapshot(st, start, depth))
         ELSE st
    ELSE LET mid == (start + end) \div 2
             sub1 == DictSet(DictSet(st.sub, <<start, mid>>, depth + 1),
                             <<mid, end>>, depth + 1)
             s1 == Yield([st EXCEPT !.sub = sub1],
                         [data |-> CopyList(st.d), split |-> <<start, mid, end>>,
                          depth |-> depth, subarrays |-> sub1])
             s2 == merge_sort_internal_keyed(s1, start, mid, depth + 1)
             s3 == merge_sort_internal_keyed(s2, mid, end, depth + 1)
             left_half == Slice(s3.d, start, mid)
             right_half == Slice(s3.d, mid, end)
             s4 == Yield(s3, [data |-> CopyList(s3.d),
                              merge_start |-> <<start, mid, end>>,
                              depth |-> depth, subarrays |-> s3.sub])
             s5 == MergeVisualLoopKeyed(s4, left_half, right_half, 0, 0, start,
                                        start, mid, depth)
             sub2 == DictDel(DictDel(s5.sub, <<start, mid>>), <<mid, end>>)
         IN  Yield([s5 EXCEPT !.sub = sub2],
                   [data |-> CopyList(s5.d), final |-> RangeList(start, end),
                    depth |-> depth, subarrays |-> sub2])

merge_sort_visual_keyed(items) ==
    LET s0 == [d |-> CopyList(items), out |-> <<>>, sub |-> <<>>]
        st == merge_sort_internal_keyed(s0, 0, Len(s0.d), 0)
    IN  Yield(st, [data |-> CopyList(st.d), final |-> RangeList(0, Len(st.d)),
                   depth |-> 0, subarrays |-> <<>>]).out

KeyedInit ==
    /\ input \in KeyedInputs
    /\ applied = "none"
    /\ result = <<>>
    /\ snapshots = <<>>
    /\ DriverUnused
    /\ MainUnused
    /\ HeapUnused

\* merge_sort is called on the keyed list.
MergeSortKeyed == ApplyReference("merge_sort", merge_sort_keyed(CopyList(input)))

\* merge_sort_visual is called on the keyed list and drained.
MergeSortVisualKeyed ==
    ApplyVisual("merge_sort_visual", merge_sort_visual_keyed(input))

KeyedNext ==
    \/ MergeSortKeyed
    \/ MergeSortVisualKeyed

KeyedSpec == KeyedInit /\ [][KeyedNext]_vars

\* ===================================================== SortData and CosmiSort
\* src/models/sort_data.py and src/ui/visualizer.py.  The particles, the
\* stars and the memory_manager operation log only feed the drawing and are
\* not part of the state; the 'time' entry of a statistics record is a
\* wall-clock difference and is not kept.

\* num_elements of SortData(num_elements, max_value): the length of the data.
NumElements == 2
\* The values random.randint(1, self.max_value) draws in the behaviours
\* explored: two values, so that two positions can hold a smaller, an equal
\* or a larger pair.
DataValues == {1, 2}
\* generate_data is called at most until current_dataset_id reaches this.
MaxDatasets == 2

\* The algorithm_name values, one per generator (config.py, ALGORITHM_ORDER).
AlgorithmNames ==
    {"selection", "bubble", "insertion", "merge", "quick", "heap", "comb"}

\* The algorithms the user launches in the behaviours explored: one that
\* exchanges neighbours and one that recurses.
LaunchedAlgorithms == {"bubble", "quick"}

\* sort_algorithm(data_copy): the generator the name stands for, as the
\* sequence of the snapshots it yields.
SortAlgorithm(name, d) ==
    CASE name = "selection" -> selection_sort_visual(d)
      [] name = "bubble" -> bubble_sort_visual(d)
      [] name = "insertion" -> insertion_sort_visual(d)
      [] name = "merge" -> merge_sort_visual(d)
      [] name = "quick" -> quick_sort_visual(d)
      [] name = "heap" -> heap_sort_visual(d)
      [] name = "comb" -> comb_sort_visual(d)

\* [random.randint(1, self.max_value) for _ in range(self.num_elements)]
RandomData == [1..NumElements -> DataValues]

\* The orders random.shuffle can leave a list in.
Shuffles(d) == {p \in [1..Len(d) -> DataValues] : IsPermutation(p, d)}

\* SortData.__init__ followed by CosmiSort.__init__
DriverInit ==
    /\ data \in RandomData
    /\ original_data = data
    /\ current_dataset_id = 1
    /\ algorithm_stats = <<>>
    /\ current_state = <<>>
    /\ current_algorithm = ""
    /\ is_sorting = FALSE
    /\ data_is_state_data = FALSE
    /\ sort_generator = NoGenerator
    /\ input = <<>>
    /\ applied = "none"
    /\ result = <<>>
    /\ snapshots = <<>>
    /\ MainUnused
    /\ HeapUnused

\* CosmiSort.generate_data -> SortData.generate_data
generate_data ==
    /\ current_dataset_id < MaxDatasets
    /\ current_dataset_id' = current_dataset_id + 1
    /\ data' \in RandomData
    /\ original_data' = data'
    /\ algorithm_stats' = <<>>
    /\ data_is_state_data' = FALSE
    /\ UNCHANGED <<current_state, current_algorithm, is_sorting, sort_generator,
                   sortVars, mainVars, heapVars>>

\* CosmiSort.shuffle_data -> SortData.shuffle_data: random.shuffle(self.data)
\* reorders the list in place, so a current_state['data'] that is this very
\* list is reordered with it.
shuffle_data ==
    /\ data' \in Shuffles(data)
    /\ current_state' = IF data_is_state_data
                        THEN [current_state EXCEPT !.data = data']
                        ELSE current_state
    /\ UNCHANGED <<original_data, current_dataset_id, algorithm_stats,
                   current_algorithm, is_sorting, data_is_state_data,
                   sort_generator, sortVars, mainVars, heapVars>>

\* CosmiSort.reset_to_original -> SortData.reset_to_original
reset_to_original ==
    /\ data' = CopyList(original_data)
    /\ data_is_state_data' = FALSE
    /\ UNCHANGED <<original_data, current_dataset_id, algorithm_stats,
                   current_state, current_algorithm, is_sorting, sort_generator,
                   sortVars, mainVars, heapVars>>

\* CosmiSort.start_sort(sort_algorithm, algorithm_name).  SortData.start_sort
\* holds a yield, so calling it runs none of its body: it returns a new
\* generator object, and self.sort_generator is bound to it.
start_sort(name) ==
    /\ sort_generator' = [state |-> "created", algorithm_name |-> name]
    /\ UNCHANGED <<data, original_data, current_dataset_id, algorithm_stats,
                   current_state, current_algorithm, is_sorting,
                   data_is_state_data, sortVars, mainVars, heapVars>>

\* RunExhausted adding the step count to the entry the algorithm already has
\* (mutant of RunExhausted).
RunExhaustedAccumulating(name, step_count) ==
    /\ algorithm_stats' =
           DictSet(algorithm_stats, name,
                   [steps |-> IF name \in DOMAIN algorithm_stats
                              THEN algorithm_stats[name].steps + step_count
                              ELSE step_count])
    /\ IF "data" \in DOMAIN current_state
       THEN data' = current_state.data /\ data_is_state_data' = TRUE
       ELSE UNCHANGED <<data, data_is_state_data>>
    /\ is_sorting' = FALSE
    /\ sort_generator' = NoGenerator
    /\ UNCHANGED current_state

\* The statement that follows the loop "for state in sort_algorithm(data_copy)"
\* of SortData.start_sort, and the StopIteration that CosmiSort.update catches.
RunExhausted(name, step_count) ==
    /\ algorithm_stats' = DictSet(algorithm_stats, name, [steps |-> step_count])
    /\ IF "data" \in DOMAIN current_state
       THEN data' = current_state.data /\ data_is_state_data' = TRUE
       ELSE UNCHANGED <<data, data_is_state_data>>
    /\ is_sorting' = FALSE
    /\ sort_generator' = NoGenerator
    /\ UNCHANGED current_state

\* One turn of the loop "for state in sort_algorithm(data_copy)": the inner
\* generator, which has yielded `yielded` snapshots, is advanced; the body
\* counts the step, keeps the state and yields it to CosmiSort.update.
AdvanceRun(name, data_copy, yielded, step_count) ==
    LET states == SortAlgorithm(name, data_copy) IN
    IF yielded < Len(states)
    THEN /\ current_state' = states[yielded + 1]
         /\ sort_generator' = [state |-> "suspended", algorithm_name |-> name,
                               data_copy |-> data_copy, yielded |-> yielded + 1,
                               step_count |-> step_count + 1]
         /\ is_sorting' = TRUE
         /\ data_is_state_data' = FALSE
         /\ UNCHANGED <<data, algorithm_stats>>
    ELSE RunExhausted(name, step_count)

\* CosmiSort.update with a generator: next(self.sort_generator).
update ==
    /\ sort_generator.state # "none"
    /\ IF sort_generator.state = "created"
       THEN IF is_sorting
            \* "if self.is_sorting: return": the generator ends at once
            THEN /\ sort_generator' = NoGenerator
                 /\ UNCHANGED <<data, algorithm_stats, current_state,
                                current_algorithm, is_sorting, data_is_state_data>>
            ELSE /\ current_algorithm' = sort_generator.algorithm_name
                 /\ AdvanceRun(sort_generator.algorithm_name, CopyList(data), 0, 0)
       ELSE /\ AdvanceRun(sort_generator.algorithm_name, sort_generator.data_copy,
                          sort_generator.yielded, sort_generator.step_count)
            /\ UNCHANGED current_algorithm
    /\ UNCHANGED <<original_data, current_dataset_id, sortVars, mainVars, heapVars>>

DriverNext ==
    \/ generate_data
    \/ shuffle_data
    \/ reset_to_original
    \/ \E name \in LaunchedAlgorithms : start_sort(name)
    \/ update

DriverSpec == DriverInit /\ [][DriverNext]_vars

\* ============================================ A run over malformed elements
\* The generators compare the elements with < and >; Python raises TypeError
\* when an operand is None.  selection_sort_visual is modelled again with the
\* comparison of line 227 able to raise: the run is the snapshots yielded
\* and whether an exception ended it.

\* None as an element of the list (no value of Values).
Malformed == 0

\* The lists SortData.data can be bound to: values and None.
MalformedInputs ==
    {d \in ListsUpTo(Values \cup {Malformed}, MaxLen) : Len(d) >= 1}

\* a < b evaluates (neither operand is None)
Comparable(a, b) == a # Malformed /\ b # Malformed

\* "for j in range(i + 1, n)", ended by the TypeError of
\* "data_copy[j] < data_copy[min_idx]"
RECURSIVE SelectionRaisingInner(_, _, _, _)
SelectionRaisingInner(st, i, j, min_idx) ==
    IF j >= Len(st.d) THEN [st |-> st, min_idx |-> min_idx, raised |-> FALSE]
    ELSE LET s1 == Yield(st, [data |-> CopyList(st.d), compare |-> <<min_idx, j>>,
                              highlight |-> <<i>>])
         IN  IF ~Comparable(At(st.d, j), At(st.d, min_idx))
             THEN [st |-> s1, min_idx |-> min_idx, raised |-> TRUE]
             ELSE IF At(st.d, j) < At(st.d, min_idx)
             THEN SelectionRaisingInner(
                      Yield(s1, [data |-> CopyList(st.d), highlight |-> <<i>>,
                                 min_candidate |-> j]),
                      i, j + 1, j)
             ELSE SelectionRaisingInner(s1, i, j + 1, min_idx)

\* "for i in range(n)"
RECURSIVE SelectionRaisingLoop(_, _)
SelectionRaisingLoop(st, i) ==
    IF i >= Len(st.d) THEN [st |-> st, raised |-> FALSE]
    ELSE LET s0 == Yield(st, [data |-> CopyList(st.d), highlight |-> <<i>>,
                              min_candidate |-> i])
             r == SelectionRaisingInner(s0, i, i + 1, i)
             swapped == Swap(r.st.d, i, r.min_idx)
         IN  IF r.raised THEN [st |-> r.st, raised |-> TRUE]
             ELSE IF r.min_idx # i
             THEN SelectionRaisingLoop(
                      Yield([r.st EXCEPT !.d = swapped],
                            [data |-> CopyList(swapped), swap |-> <<i, r.min_idx>>]),
                      i + 1)
             ELSE SelectionRaisingLoop(
                      Yield(r.st, [data |-> CopyList(r.st.d), final |-> <<i>>]),
                      i + 1)

\* selection_sort_visual(data) on any list: the snapshots it yields and
\* whether a TypeError follows the last of them.
selection_sort_visual_run(d0) ==
    LET r == SelectionRaisingLoop([d |-> CopyList(d0), out |-> <<>>], 0)
    IN  IF r.raised THEN [out |-> r.st.out, raised |-> TRUE]
        ELSE [out |-> Yield(r.st, [data |-> CopyList(r.st.d),
                                   final |-> RangeList(0, Len(d0))]).out,
              raised |-> FALSE]

\* SortData with its data bound to a list that may hold None.
MalformedInit ==
    /\ data \in MalformedInputs
    /\ original_data = data
    /\ current_dataset_id = 1
    /\ algorithm_stats = <<>>
    /\ current_state = <<>>
    /\ current_algorithm = ""
    /\ is_sorting = FALSE
    /\ data_is_state_data = FALSE
    /\ sort_generator = NoGenerator
    /\ input = <<>>
    /\ applied = "none"
    /\ result = <<>>
    /\ snapshots = <<>>
    /\ MainUnused
    /\ HeapUnused

\* One turn of the loop "for state in sort_algorithm(data_copy)" of
\* SortData.start_sort with selection_sort_visual.  A TypeError of the inner
\* generator passes through start_sort, which has no try, and through
\* CosmiSort.update, which catches StopIteration only: nothing after the
\* loop runs, and the generator object stays bound, finished.
AdvanceRunRaising(name, data_copy, yielded, step_count) ==
    LET run == selection_sort_visual_run(data_copy) IN
    IF yielded < Len(run.out)
    THEN /\ current_state' = run.out[yielded + 1]
         /\ sort_generator' = [state |-> "suspended", algorithm_name |-> name,
                               data_copy |-> data_copy, yielded |-> yielded + 1,
                               step_count |-> step_count + 1]
         /\ is_sorting' = TRUE
         /\ data_is_state_data' = FALSE
         /\ UNCHANGED <<data, algorithm_stats>>
    ELSE IF run.raised
    THEN /\ sort_generator' = [state |-> "raised", algorithm_name |-> name,
                               yielded |-> yielded]
         /\ is_sorting' = TRUE
         /\ UNCHANGED <<data, algorithm_stats, current_state, data_is_state_data>>
    ELSE RunExhausted(name, step_count)

\* CosmiSort.update with a generator, the data possibly malformed.
update_raising ==
    /\ sort_generator.state # "none"
    /\ CASE sort_generator.state = "created" ->
              IF is_sorting
              THEN /\ sort_generator' = NoGenerator
                   /\ UNCHANGED <<data, algorithm_stats, current_state,
                                  current_algorithm, is_sorting, data_is_state_data>>
              ELSE /\ current_algorithm' = sort_generator.algorithm_name
                   /\ AdvanceRunRaising(sort_generator.algorithm_name,
                                        CopyList(data), 0, 0)
         [] sort_generator.state = "suspended" ->
              /\ AdvanceRunRaising(sort_generator.algorithm_name,
                                   sort_generator.data_copy,
                                   sort_generator.yielded, sort_generator.step_count)
              /\ UNCHANGED current_algorithm
         \* next() of a generator an exception ended: StopIteration
         [] sort_generator.state = "raised" ->
              /\ sort_generator' = NoGenerator
              /\ UNCHANGED <<data, algorithm_stats, current_state,
                             current_algorithm, is_sorting, data_is_state_data>>
    /\ UNCHANGED <<original_data, current_dataset_id, sortVars, mainVars, heapVars>>

MalformedNext ==
    \/ start_sort("selection")
    \/ update_raising

MalformedSpec == MalformedInit /\ [][MalformedNext]_vars

\* ================================================ The list objects of a run
\* One run of SortData.start_sort followed at the level of the list objects:
\* which list is a copy and which is the same object under another name.
\* heap maps an object id to the content of the list; refs holds the ids
\* behind the names self.data, data_copy (of start_sort), data_copy (of the
\* generator) and current_state['data'] (the snapshot last delivered, the
\* only one the driver keeps a reference to).

\* list(x), x.copy(): a new list object with the content of x
NewCopy(h, src) == [heap |-> Append(h, h[src]), ref |-> Len(h) + 1]

\* data_copy = self.data.copy()  (SortData.start_sort)
StartSortCopy(h, src) == NewCopy(h, src)

\* The generator working on the very list it was given (mutant of
\* WorkingCopy).
WorkingCopyAliased(h, src) == [heap |-> h, ref |-> src]

\* data_copy = list(data)  (first statement of every *_visual generator)
WorkingCopy(h, src) == NewCopy(h, src)

\* A snapshot holding the working list itself, {'data': data_copy} (mutant
\* of SnapshotData).
SnapshotDataAliased(h, src) == [heap |-> h, ref |-> src]

\* 'data': list(data_copy)  (every yield of every *_visual generator)
SnapshotData(h, src) == NewCopy(h, src)

\* The assignments data_copy[i] = ... a generator makes between two yields:
\* the cells in which the list at the later yield differs from the list at
\* the earlier one.
WriteCells(content, before, after) ==
    [i \in 1..Len(content) |->
        IF before[i] # after[i] THEN after[i] ELSE content[i]]

\* The snapshot object last delivered is dropped when nothing else names it
\* (self.current_state is rebound to the next state).
Release(h, ref, kept) ==
    IF ref = Len(h) /\ ref \notin kept THEN SubSeq(h, 1, Len(h) - 1) ELSE h

\* The generator runs from one yield to the next: it writes to its working
\* list w and yields a snapshot of it.
Deliver(h, w, kept, oldsnap, before, after) ==
    LET h1 == [h EXCEPT ![w] = WriteCells(@, before, after)]
    IN  SnapshotData(Release(h1, oldsnap, kept), w)

\* SortData as constructed: self.data is object 1.
ObjectInit ==
    /\ input \in RandomData
    /\ heap = <<input>>
    /\ refs = NoRefs
    /\ applied = "none"
    /\ result = <<>>
    /\ snapshots = <<>>
    /\ DriverUnused
    /\ MainUnused

\* The first next() of SortData.start_sort(sort_algorithm, name): the two
\* copies are made and the loop reaches its first yield.  snapshots records
\* the states sort_algorithm(data_copy) goes through on this input, of which
\* refs.yielded have been delivered.
ObjectStartSort(name) ==
    /\ refs.state = "idle"
    /\ LET c1 == StartSortCopy(heap, 1)
           c2 == WorkingCopy(c1.heap, c1.ref)
           states == SortAlgorithm(name, heap[1])
           s == Deliver(c2.heap, c2.ref, {1, c1.ref, c2.ref}, 0,
                        heap[1], states[1].data)
       IN  /\ heap' = s.heap
           /\ refs' = [state |-> "running", self_data |-> 1,
                       data_copy |-> c1.ref, working |-> c2.ref,
                       snap |-> s.ref, yielded |-> 1]
           /\ snapshots' = states
    /\ applied' = name
    /\ UNCHANGED <<input, result, driverVars, mainVars>>

\* ObjectAdvance with a loop that does not move on: the position of the
\* generator stays where it was (mutant of ObjectAdvance).
ObjectAdvanceInPlace ==
    /\ refs.state = "running"
    /\ LET states == snapshots
           k == refs.yielded
       IN  /\ k < Len(states)
           /\ LET s == Deliver(heap, refs.working,
                               {refs.self_data, refs.data_copy, refs.working},
                               refs.snap, states[k].data, states[k].data)
              IN  /\ heap' = s.heap
                  /\ refs' = [refs EXCEPT !.snap = s.ref]
    /\ UNCHANGED <<sortVars, driverVars, mainVars>>

\* A later next(): one more turn of "for state in sort_algorithm(data_copy)".
ObjectAdvance ==
    /\ refs.state = "running"
    /\ LET states == snapshots
           k == refs.yielded
       IN  /\ k < Len(states)
           /\ LET s == Deliver(heap, refs.working,
                               {refs.self_data, refs.data_copy, refs.working},
                               refs.snap, states[k].data, states[k + 1].data)
              IN  /\ heap' = s.heap
                  /\ refs' = [refs EXCEPT !.snap = s.ref, !.yielded = k + 1]
    /\ UNCHANGED <<sortVars, driverVars, mainVars>>

\* The next() that finds the generator exhausted:
\* self.data = self.current_state['data'] names the last snapshot's list.
ObjectComplete ==
    /\ refs.state = "running"
    /\ refs.yielded = Len(snapshots)
    /\ refs' = [refs EXCEPT !.state = "complete", !.self_data = refs.snap]
    /\ UNCHANGED <<heap, sortVars, driverVars, mainVars>>

\* The consumer of the snapshots assigns to a cell of the data of the
\* snapshot it was last given.
MutateSnapshot(i, v) ==
    /\ refs.state \in {"running", "complete"}
    /\ i < Len(heap[refs.snap])
    /\ At(heap[refs.snap], i) # v
    /\ heap' = [heap EXCEPT ![refs.snap] = SetAt(@, i, v)]
    /\ UNCHANGED <<refs, sortVars, driverVars, mainVars>>

ObjectNext ==
    \/ \E name \in AlgorithmNames : ObjectStartSort(name)
    \/ ObjectAdvance
    \/ ObjectComplete
    \/ \E i \in 0..(NumElements - 1), v \in DataValues : MutateSnapshot(i, v)

ObjectSpec == ObjectInit /\ [][ObjectNext]_vars

\* The caller goes on calling next() (CosmiSort.update, once per frame, or a
\* for loop draining the generator): a turn that can be taken is taken.
ObjectFairSpec ==
    /\ ObjectSpec
    /\ WF_vars(ObjectAdvance)
    /\ WF_vars(ObjectComplete)

\* ================================================ VisualiseurtriQuantique
\* src/main.py: the key handlers of _gerer_evenements and one turn of
\* boucle_principale.  What only feeds the drawing (the traces, the surface
\* cache, mode_visualisation, the comparison panel) is not part of the state.
\* The list sizes are scaled down: the code starts at 100 elements and moves
\* by 50 between 10 and 1000.

\* self.taille_liste as constructed (100 in the code)
TailleInitiale == 2
\* the step of K_UP and K_DOWN (50 in the code)
TaillePas == 1
\* the floor of K_DOWN (10 in the code)
TailleMin == 2
\* the ceiling of K_UP (1000 in the code)
TailleMax == 3
\* time.time() returns a value of 1..MaxTime; 0 is an unset time
MaxTime == 2
\* the duration a sort function reports is a value of 0..MaxDuree
MaxDuree == 1

\* list(ALGORITHMES.keys())
Algos == <<"Selection", "Bulles", "Insertion", "Fusion", "Rapide", "Tas", "Peigne">>

\* algos.index(self.algo_actif)
AlgoIndex(a) == CHOOSE k \in 1..Len(Algos) : Algos[k] = a

\* The values time.time() can return.
Times == 1..MaxTime

\* _generer_liste: taille_liste random values (two distinct values here)
GenererListe(taille) == [1..taille -> DataValues]

Min(a, b) == IF a < b THEN a ELSE b

Max(a, b) == IF a > b THEN a ELSE b

\* The sort functions main.py imports (tri_selection .. tri_peigne,
\* tri_parallele) are not in src/sorting.py: by the contract of the
\* reference sorts they return the sorted permutation of their argument,
\* with a duration.
TriFonction(liste) ==
    CHOOSE p \in [1..Len(liste) -> DataValues] : IsSorted(p) /\ IsPermutation(p, liste)

\* VisualiseurtriQuantique.__init__
MainInit ==
    /\ taille_liste = TailleInitiale
    /\ liste_originale \in GenererListe(TailleInitiale)
    /\ etat = reinitialiser(CopyList(liste_originale))
    /\ algo_actif = "Selection"
    /\ parallele = FALSE
    /\ en_cours = FALSE
    /\ en_pause = FALSE
    /\ animation_seulement = FALSE
    /\ input = <<>>
    /\ applied = "none"
    /\ result = <<>>
    /\ snapshots = <<>>
    /\ DriverUnused
    /\ HeapUnused

\* K_SPACE: pause or resume a sort in progress, else start one
KeySpace ==
    /\ IF en_cours
       THEN /\ en_pause' = ~en_pause
            /\ UNCHANGED <<animation_seulement, en_cours>>
       ELSE /\ animation_seulement' = TRUE
            /\ en_cours' = TRUE
            /\ en_pause' = FALSE
    /\ UNCHANGED <<liste_originale, taille_liste, etat, algo_actif, parallele,
                   sortVars, driverVars, heapVars>>

\* K_r: a new list of the same size
KeyR ==
    /\ liste_originale' \in GenererListe(taille_liste)
    /\ etat' = reinitialiser(CopyList(liste_originale'))
    /\ en_cours' = FALSE
    /\ en_pause' = FALSE
    /\ UNCHANGED <<taille_liste, algo_actif, parallele, animation_seulement,
                   sortVars, driverVars, heapVars>>

\* K_UP and K_DOWN: a new list of the new size
Resize(taille) ==
    /\ taille_liste' = taille
    /\ liste_originale' \in GenererListe(taille)
    /\ etat' = reinitialiser(CopyList(liste_originale'))
    /\ en_cours' = FALSE
    /\ UNCHANGED <<en_pause, algo_actif, parallele, animation_seulement,
                   sortVars, driverVars, heapVars>>

KeyUp == Resize(Min(TailleMax, taille_liste + TaillePas))

KeyDown == Resize(Max(TailleMin, taille_liste - TaillePas))

\* K_LEFT and K_RIGHT: the previous or the next algorithm
SwitchAlgo(offset) ==
    /\ algo_actif' = Algos[((AlgoIndex(algo_actif) - 1 + offset) % Len(Algos)) + 1]
    /\ en_cours' = FALSE
    /\ UNCHANGED <<liste_originale, taille_liste, etat, parallele, en_pause,
                   animation_seulement, sortVars, driverVars, heapVars>>

KeyLeft == SwitchAlgo(-1)

KeyRight == SwitchAlgo(1)

\* K_p
KeyP ==
    /\ parallele' = ~parallele
    /\ UNCHANGED <<liste_originale, taille_liste, etat, algo_actif, en_cours,
                   en_pause, animation_seulement, sortVars, driverVars, heapVars>>

\* K_a
KeyA ==
    /\ animation_seulement' = ~animation_seulement
    /\ UNCHANGED <<liste_originale, taille_liste, etat, algo_actif, parallele,
                   en_cours, en_pause, sortVars, driverVars, heapVars>>

\* The "Selection" pattern of the animation-only mode, from the state e.
\* random.random() < 0.05 and random.sample(range(n), 2) are free choices.
AnimationSelection(e, next_etat) ==
    LET n == Len(e.liste)
        min_idx == e.etape
        j0 == min_idx + (e.etape % 10)
        j == IF j0 >= n THEN n - 1 ELSE j0
    IN  IF min_idx < n
        THEN \E echange \in BOOLEAN, idx1, idx2 \in 0..(n - 1) :
                 /\ idx1 # idx2
                 /\ next_etat =
                        [e EXCEPT !.indices_actifs = <<min_idx, j>>,
                                  !.liste = IF echange THEN Swap(@, idx1, idx2) ELSE @,
                                  !.etape = @ + 1]
        ELSE \E t \in Times :
                 next_etat = [e EXCEPT !.termine = TRUE, !.temps_fin = t]

\* "for i in range(len(indices) - 1)": the exchanges of neighbours among the
\* sampled indices; choix[i] is random.random() < 0.5 at turn i
RECURSIVE EchangesVoisins(_, _, _, _)
EchangesVoisins(liste, indices, choix, i) ==
    IF i > Len(indices) - 1 THEN liste
    ELSE EchangesVoisins(
             IF choix[i] /\ indices[i + 1] - indices[i] = 1
             THEN Swap(liste, indices[i], indices[i + 1]) ELSE liste,
             indices, choix, i + 1)

\* sorted(random.sample(range(n), k)): the increasing lists of k indices
Echantillons(n, k) ==
    {ix \in [1..k -> 0..(n - 1)] : \A a \in 1..(k - 1) : ix[a] < ix[a + 1]}

\* The pattern of the animation-only mode for the other algorithms.
AnimationGenerique(e, next_etat) ==
    LET n == Len(e.liste)
        k == Min(3, n)
    IN  IF e.etape < n * 2
        THEN \E indices \in Echantillons(n, k), echange \in BOOLEAN,
                choix \in [1..(k - 1) -> BOOLEAN] :
                 next_etat =
                     [e EXCEPT !.indices_actifs = indices,
                               !.liste = IF echange
                                         THEN EchangesVoisins(@, indices, choix, 1)
                                         ELSE @,
                               !.etape = @ + 1]
        ELSE \E t \in Times :
                 next_etat = [e EXCEPT !.liste = TriFonction(@), !.termine = TRUE,
                                       !.temps_fin = t]

\* The real execution: algo_fonction(self.liste_originale), or tri_parallele
ExecutionReelle(e, next_etat) ==
    \E temps \in 0..MaxDuree :
        next_etat = [e EXCEPT !.liste = TriFonction(liste_originale),
                              !.termine = TRUE,
                              !.temps_fin = e.temps_debut + temps]

\* _executer_tri, called by boucle_principale when en_cours and not en_pause
executer_tri ==
    /\ en_cours /\ ~en_pause
    /\ \E t \in Times :
           LET e == IF ~en_cours \/ etat.termine
                    THEN [reinitialiser(CopyList(liste_originale))
                              EXCEPT !.temps_debut = t]
                    ELSE etat
           IN  IF animation_seulement
               THEN IF algo_actif = "Selection"
                    THEN AnimationSelection(e, etat')
                    ELSE AnimationGenerique(e, etat')
               ELSE ExecutionReelle(e, etat')
    /\ en_cours' = TRUE
    /\ UNCHANGED <<liste_originale, taille_liste, algo_actif, parallele, en_pause,
                   animation_seulement, sortVars, driverVars, heapVars>>

MainNext ==
    \/ KeySpace
    \/ KeyR
    \/ KeyUp
    \/ KeyDown
    \/ KeyLeft
    \/ KeyRight
    \/ KeyP
    \/ KeyA
    \/ executer_tri

MainSpec == MainInit /\ [][MainNext]_vars

\* ================================================================= claims
LastSnapshot == snapshots[Len(snapshots)]

\* C1: for every input and each of the seven step-emitting sorts, the data of
\* the last snapshot yielded is non-decreasing and is a permutation of the
\* input.
C1_FinalSnapshotSortedPermutation ==
    applied \in VisualSorts =>
        /\ Len(snapshots) >= 1
        /\ IsSorted(LastSnapshot.data)
        /\ IsPermutation(LastSnapshot.data, input)

\* C2: each of the seven reference sorts ends, for every input of length
\* n >= 0, with a non-decreasing permutation of its input.
C2_ReferenceSortsSort ==
    applied \in ReferenceSorts =>
        /\ IsSorted(result)
        /\ IsPermutation(result, input)

\* A reference sort has run on an unsorted input of full length that holds
\* a duplicate.
C2_Witness ==
    /\ applied \in ReferenceSorts
    /\ Len(input) = MaxLen
    /\ ~IsSorted(input)
    /\ \E a, b \in 1..Len(input) : a # b /\ input[a] = input[b]
    /\ result # input

\* C8: for every input and every step-emitting sort, the run yields at least
\* one snapshot, and the last snapshot yielded has final equal to the list of
\* all the indices 0..n-1.
C8_LastSnapshotAllFinal ==
    applied \in VisualSorts =>
        /\ Len(snapshots) >= 1
        /\ "final" \in DOMAIN LastSnapshot
        /\ LastSnapshot.final = [k \in 1..Len(input) |-> k - 1]

\* A step-emitting sort has run on an unsorted input of full length and has
\* yielded snapshots that are not all-final before its last one.
C8_Witness ==
    /\ applied \in VisualSorts
    /\ Len(input) = MaxLen
    /\ ~IsSorted(input)
    /\ Len(snapshots) > Len(input)
    /\ "final" \notin DOMAIN snapshots[1]

\* C9: for an input of length n <= 1, each of the seven step-emitting sorts
\* yields exactly one snapshot, and it is the all-final snapshot.
C9_TrivialInputOneSnapshot ==
    (applied \in VisualSorts /\ Len(input) <= 1) =>
        /\ Len(snapshots) = 1
        /\ "final" \in DOMAIN snapshots[1]
        /\ snapshots[1].final = [k \in 1..Len(input) |-> k - 1]
        /\ snapshots[1].data = input

\* C10: every snapshot yielded by every step-emitting sort has a data field
\* whose length is the length of the input.
C10_SnapshotDataLength ==
    applied \in VisualSorts =>
        \A k \in 1..Len(snapshots) :
            /\ "data" \in DOMAIN snapshots[k]
            /\ Len(snapshots[k].data) = Len(input)

\* A step-emitting sort that writes while it merges has run on a full-length
\* input and has yielded its one-element sub-list snapshots and its writes.
C10_Witness ==
    /\ applied = "merge_sort_visual"
    /\ Len(input) = MaxLen
    /\ \E k \in 1..Len(snapshots) :
           /\ "highlight" \in DOMAIN snapshots[k]
           /\ Len(snapshots[k].data) = MaxLen
    /\ \E k \in 1..Len(snapshots) : "insert" \in DOMAIN snapshots[k]

\* C3: a start requested (CosmiSort.start_sort) while a run is active is a
\* no-op: the active run is left intact and keeps its generator, which later
\* ticks go on advancing.
C3_StartWhileActiveIsNoOp ==
    [][(is_sorting /\ \E name \in LaunchedAlgorithms : start_sort(name))
           => UNCHANGED sort_generator]_vars

\* C4: when the input is regenerated (generate_data) while a run is active,
\* the run is discarded: no generator is left for update() to advance, so it
\* delivers no further snapshot, records no statistics and overwrites nothing.
C4_RegenerateDiscardsRun ==
    [][(sort_generator.state = "suspended" /\ generate_data)
           => sort_generator' = NoGenerator]_vars

\* The tick at which the suspended generator is resumed and found exhausted:
\* the only step that takes a suspended generator away.
RunEndsNow ==
    /\ sort_generator.state = "suspended"
    /\ sort_generator' = NoGenerator

\* C5: when a run's snapshot sequence is exhausted, algorithm_stats[name]
\* gets a step count equal to the number of the snapshots the run delivered
\* (all those of its sequence), in place of any entry the algorithm had, and
\* the entries of the other algorithms stay; no entry is written at any
\* other step (the only other change is generate_data emptying the table).
C5_StatsRecordedAtExhaustion ==
    [][/\ RunEndsNow =>
              LET name == sort_generator.algorithm_name IN
              /\ DOMAIN algorithm_stats' = DOMAIN algorithm_stats \cup {name}
              /\ algorithm_stats'[name].steps = sort_generator.yielded
              /\ sort_generator.yielded =
                     Len(SortAlgorithm(name, sort_generator.data_copy))
              /\ \A other \in DOMAIN algorithm_stats \ {name} :
                     algorithm_stats'[other] = algorithm_stats[other]
       /\ ~RunEndsNow =>
              (algorithm_stats' = algorithm_stats \/ algorithm_stats' = <<>>)]_vars

\* Both launched algorithms have completed a run, the later one has just
\* handed its last snapshot's data over, and one of the runs had exchanges
\* to make.
C5_Witness ==
    /\ DOMAIN algorithm_stats = LaunchedAlgorithms
    /\ ~is_sorting
    /\ sort_generator = NoGenerator
    /\ data_is_state_data
    /\ algorithm_stats["bubble"].steps = Len(bubble_sort_visual(<<2, 1>>))

\* C6: in the main.py driver a run that has reached the complete state
\* (etat.termine) stays complete on every later frame tick: the step
\* counter, the list and the end time do not change and the run is not run
\* again.
C6_CompleteStaysComplete ==
    [][(etat.termine /\ executer_tri)
           => /\ etat'.termine
              /\ etat'.etape = etat.etape
              /\ etat'.liste = etat.liste
              /\ etat'.temps_fin = etat.temps_fin]_vars

\* C7: in the main.py driver every transition from idle to running (SPACE
\* while no sort is in progress) has the step counter at 0 and the start
\* time captured before the first step of the run: the counter is 0 when the
\* run starts, unless the first call of _executer_tri resets it (which it
\* does for a complete state), and every step is performed with a start time
\* set.
C7_StartCapturesTimeAndResetsCounter ==
    [][/\ (~en_cours /\ en_cours') => (etat'.termine \/ etat'.etape = 0)
       /\ executer_tri => etat'.temps_debut # 0]_vars

\* C11: a step-emitting sort started on data holding a malformed element
\* surfaces the error at the start, before any snapshot is delivered, and
\* leaves no partial run: when the exception has been raised no snapshot has
\* been produced and the driver is not in the running state.
C11_ErrorSurfacesAtStart ==
    sort_generator.state = "raised"
        => (sort_generator.yielded = 0 /\ ~is_sorting)

\* C12: the reference merge_sort is stable: elements of equal key appear in
\* the output in the relative order they had in the input.
C12_MergeSortStable ==
    applied = "merge_sort"
        => \A i, j \in 1..Len(result) :
               (i < j /\ result[i].key = result[j].key)
                   => result[i].tag < result[j].tag

\* C13: in quick_sort_visual every snapshot carrying pivot_placed = p with
\* range = (low, high) has low <= p <= high, data[k] <= data[p] for every
\* low <= k < p and data[k] > data[p] for every p < k <= high.
C13_PivotPlacedPartitions ==
    applied = "quick_sort_visual"
        => \A n \in 1..Len(snapshots) :
               "pivot_placed" \in DOMAIN snapshots[n]
                   => LET snap == snapshots[n]
                          p == snap.pivot_placed
                          low == snap.range[1]
                          high == snap.range[2]
                      IN  /\ low <= p /\ p <= high
                          /\ \A k \in low..(p - 1) :
                                 At(snap.data, k) <= At(snap.data, p)
                          /\ \A k \in (p + 1)..high :
                                 At(snap.data, k) > At(snap.data, p)

\* No index is in the final field of two snapshots before the last one.
FinalOnceBeforeTerminal(states) ==
    \A m, n \in 1..(Len(states) - 1) :
        (m < n /\ "final" \in DOMAIN states[m] /\ "final" \in DOMAIN states[n])
            => \A a \in 1..Len(states[m].final), b \in 1..Len(states[n].final) :
                   states[m].final[a] # states[n].final[b]

\* The last snapshot's final field lists each index of 0..n-1 exactly once.
TerminalListsEachOnce(states, n) ==
    LET final == states[Len(states)].final IN
    /\ Len(final) = n
    /\ \A idx \in 0..(n - 1) :
           Cardinality({a \in 1..Len(final) : final[a] = idx}) = 1

IncrementalSorts ==
    {"selection_sort_visual", "insertion_sort_visual", "heap_sort_visual",
     "merge_sort_visual"}

\* C14 (as claimed): for selection, insertion, heap and merge no index is in
\* the final field of more than one snapshot before the terminal snapshot,
\* and the terminal snapshot lists each index exactly once.
C14_FinalMarkedOnce ==
    applied \in IncrementalSorts
        => /\ FinalOnceBeforeTerminal(snapshots)
           /\ TerminalListsEachOnce(snapshots, Len(input))

\* C14 (amended): for selection and heap no index is in the final field of
\* more than one snapshot before the terminal snapshot; for selection,
\* insertion, heap and merge the terminal snapshot lists each index exactly
\* once.
C14_FinalMarkedOnceSelectionHeap ==
    /\ applied \in {"selection_sort_visual", "heap_sort_visual"}
           => FinalOnceBeforeTerminal(snapshots)
    /\ applied \in IncrementalSorts
           => TerminalListsEachOnce(snapshots, Len(input))

\* heap_sort_visual has run on three elements or more: two extractions have
\* each marked an index final before the terminal snapshot.
C14_Witness ==
    /\ applied = "heap_sort_visual"
    /\ Len(input) >= 3
    /\ \E m, n \in 1..(Len(snapshots) - 1) :
           /\ m < n
           /\ "final" \in DOMAIN snapshots[m]
           /\ "final" \in DOMAIN snapshots[n]

\* The number of the snapshots of states that carry the key.
CountWithKey(states, key) ==
    Cardinality({k \in 1..Len(states) : key \in DOMAIN states[k]})

\* C15: bubble_sort_visual on an already sorted input of n >= 2 elements
\* makes one pass: n - 1 compare snapshots, no swap snapshot, and fewer
\* snapshots in all than on any input of the same size that needs a swap.
C15_BubbleSortedInputOnePass ==
    (applied = "bubble_sort_visual" /\ Len(input) >= 2 /\ IsSorted(input))
        => /\ CountWithKey(snapshots, "compare") = Len(input) - 1
           /\ CountWithKey(snapshots, "swap") = 0
           /\ \A other \in Inputs :
                  (Len(other) = Len(input) /\ ~IsSorted(other))
                      => Len(snapshots) < Len(bubble_sort_visual(other))

\* bubble_sort_visual has run on a sorted input of three elements or more
\* with distinct values.
C15_Witness ==
    /\ applied = "bubble_sort_visual"
    /\ Len(input) >= 3
    /\ \A k \in 1..(Len(input) - 1) : input[k] < input[k + 1]
    /\ Len(snapshots) = Len(input) + 2

\* A snapshot of comb_sort_visual that announces a gap (no compare, no swap).
IsGapUpdate(snap) ==
    "gap" \in DOMAIN snap /\ "compare" \notin DOMAIN snap /\ "swap" \notin DOMAIN snap

\* The gap-update snapshots of a run, in order.
GapUpdates(states) == SelectSeq(states, IsGapUpdate)

\* C16 (as claimed): in comb_sort_visual each gap-update snapshot carries a
\* gap strictly smaller than the one before, and the last one carries 1.
C16_GapsStrictlyDecrease ==
    applied = "comb_sort_visual"
        => LET gaps == GapUpdates(snapshots) IN
           /\ Len(gaps) >= 1
           /\ gaps[Len(gaps)].gap = 1
           /\ \A k \in 1..(Len(gaps) - 1) : gaps[k + 1].gap < gaps[k].gap

\* C16 (amended): the gaps of the successive gap-update snapshots start
\* below n (at 1 for n <= 1), never grow, strictly decrease as long as they
\* are above 1, and the last one is 1; a gap of 1 is announced again only
\* after a gap of 1.
C16_GapsDecreaseToOne ==
    applied = "comb_sort_visual"
        => LET gaps == GapUpdates(snapshots) IN
           /\ Len(gaps) >= 1
           /\ IF Len(input) >= 2 THEN gaps[1].gap < Len(input) ELSE gaps[1].gap = 1
           /\ gaps[Len(gaps)].gap = 1
           /\ \A k \in 1..(Len(gaps) - 1) :
                  \/ gaps[k + 1].gap < gaps[k].gap
                  \/ gaps[k].gap = 1 /\ gaps[k + 1].gap = 1

\* comb_sort_visual has run through the gaps 3, 2, 1 and, an exchange having
\* been made at gap 1, through 1 again.
C16_Witness ==
    /\ applied = "comb_sort_visual"
    /\ LET gaps == GapUpdates(snapshots) IN
       /\ Len(gaps) >= 4
       /\ gaps[1].gap = 3
       /\ gaps[Len(gaps) - 1].gap = 1

\* C17: a step-emitting sort never changes the list it is given: while a
\* SortData run is under way, after any number of advances, the list
\* self.data names and the list handed to the generator hold what they held
\* when the run started.
C17_InputNeverMutated ==
    refs.state = "running"
        => /\ heap[refs.self_data] = input
           /\ heap[refs.data_copy] = input

\* A run is under way and the generator has exchanged elements of its
\* working list.
C17_Witness ==
    /\ refs.state = "running"
    /\ refs.yielded >= 2
    /\ heap[refs.working] # input

\* A step that assigns to a cell of the delivered snapshot's data.
SnapshotMutated ==
    /\ refs.state \in {"running", "complete"}
    /\ refs' = refs
    /\ heap' # heap

HeapBuildLen(d) ==
    Len(HeapVisualBuild([d |-> CopyList(d), out |-> <<>>],
                        (Len(d) \div 2) - 1).out)

\* C21: in heap_sort_visual every swap snapshot carries the phase in which
\* it happens: 'build' while the heap is built, 'extract' for every swap of
\* the extraction phase, the sift-down swaps included.
C21_SwapsTaggedWithPhase ==
    applied = "heap_sort_visual" =>
        \A k \in 1..Len(snapshots) :
            "swap" \in DOMAIN snapshots[k] =>
                /\ "heap_level" \in DOMAIN snapshots[k]
                /\ snapshots[k].heap_level =
                       IF k <= HeapBuildLen(input) THEN "build" ELSE "extract"

\* The positions of the snapshots of a run whose final field lists every
\* index 0..n-1.
AllFinalPositions(states, n) ==
    {k \in 1..Len(states) :
        /\ "final" \in DOMAIN states[k]
        /\ states[k].final = RangeList(0, n)}

\* C22: a run of bubble_sort_visual, which ends after a pass without a swap,
\* holds exactly one snapshot whose final field is [0..n-1].
C22_BubbleOneAllFinalSnapshot ==
    applied = "bubble_sort_visual" =>
        Cardinality(AllFinalPositions(snapshots, Len(input))) = 1

\* Elements of equal key stand in the order they had in the input, among the
\* positions lo..hi-1 (0-based) of d.
StableWithin(d, lo, hi) ==
    \A i, j \in (lo + 1)..hi :
        (i < j /\ d[i].key = d[j].key) => d[i].tag < d[j].tag

\* C23: merge_sort_visual yields no snapshot with a swap key and, taking the
\* left element on a tie, keeps elements of equal key in their input order:
\* in every sub-range it reports merged (final) and in the terminal data.
C23_MergeVisualStableNoSwap ==
    applied = "merge_sort_visual" =>
        \A k \in 1..Len(snapshots) :
            /\ "swap" \notin DOMAIN snapshots[k]
            /\ "final" \in DOMAIN snapshots[k] =>
                   \/ snapshots[k].final = <<>>
                   \/ StableWithin(snapshots[k].data,
                                   snapshots[k].final[1],
                                   snapshots[k].final[Len(snapshots[k].final)] + 1)

\* A run in which a comparison was a tie between two different elements and
\* whose terminal data holds elements of equal key.
C23_Witness ==
    /\ applied = "merge_sort_visual"
    /\ Len(input) >= 3
    /\ \E k \in 1..Len(snapshots) :
           /\ "compare" \in DOMAIN snapshots[k]
           /\ At(snapshots[k].data, snapshots[k].compare[1]).key
                  = At(snapshots[k].data, snapshots[k].compare[2]).key
           /\ At(snapshots[k].data, snapshots[k].compare[1]).tag
                  # At(snapshots[k].data, snapshots[k].compare[2]).tag
    /\ \E i, j \in 1..Len(input) :
           i < j /\ LastSnapshot.data[i].key = LastSnapshot.data[j].key

\* The positions of the snapshots, the terminal one left out, that carry a
\* swap or a final key, in the order of the run.
RECURSIVE ClosingPositions(_, _)
ClosingPositions(states, k) ==
    IF k >= Len(states) THEN <<>>
    ELSE IF "swap" \in DOMAIN states[k] \/ "final" \in DOMAIN states[k]
    THEN <<k>> \o ClosingPositions(states, k + 1)
    ELSE ClosingPositions(states, k + 1)

\* The leftmost position (0-based) of a minimum of d[i..n).
LeftmostMin(d, i) ==
    CHOOSE m \in i..(Len(d) - 1) :
        /\ \A k \in i..(Len(d) - 1) : At(d, m) <= At(d, k)
        /\ \A k \in i..(m - 1) : At(d, k) > At(d, m)

\* C24: selection_sort_visual closes each outer position i by exactly one
\* snapshot: swap [i, m] when the leftmost minimum of data[i..n) is at
\* m # i, final [i] otherwise; in its data, data[i] is a minimum of
\* data[i..n) and data[0..i] is non-decreasing.
C24_SelectionClosesEachPosition ==
    applied = "selection_sort_visual" =>
        LET closing == ClosingPositions(snapshots, 1)
            n == Len(input)
        IN  /\ Len(closing) = n
            /\ \A c \in 1..Len(closing) :
                   LET i == c - 1
                       snap == snapshots[closing[c]]
                       before == snapshots[closing[c] - 1].data
                       m == LeftmostMin(before, i)
                   IN  /\ IF m # i
                          THEN /\ "swap" \in DOMAIN snap
                               /\ "final" \notin DOMAIN snap
                               /\ snap.swap = <<i, m>>
                               /\ snap.data = Swap(before, i, m)
                          ELSE /\ "final" \in DOMAIN snap
                               /\ "swap" \notin DOMAIN snap
                               /\ snap.final = <<i>>
                               /\ snap.data = before
                       /\ \A k \in i..(n - 1) : At(snap.data, i) <= At(snap.data, k)
                       /\ IsSorted(SubSeq(snap.data, 1, i + 1))

\* A run of selection_sort_visual that closes one position by a swap with a
\* minimum that occurs twice, and another by a final.
C24_Witness ==
    /\ applied = "selection_sort_visual"
    /\ \E k \in 2..(Len(snapshots) - 1) :
           /\ "swap" \in DOMAIN snapshots[k]
           /\ \E j \in 1..Len(input) :
                  /\ j - 1 > snapshots[k].swap[2]
                  /\ snapshots[k - 1].data[j]
                         = At(snapshots[k - 1].data, snapshots[k].swap[2])
    /\ \E k \in 1..(Len(snapshots) - 1) : "final" \in DOMAIN snapshots[k]

\* d is a max-heap: data[(k-1)//2] >= data[k] for every 1 <= k < n.
IsMaxHeap(d) ==
    \A k \in 1..(Len(d) - 1) : At(d, (k - 1) \div 2) >= At(d, k)

\* The working list of heap_sort_visual when its build phase ends.
HeapBuildData(d) ==
    HeapVisualBuild([d |-> CopyList(d), out |-> <<>>], (Len(d) \div 2) - 1).d

\* C25: in heap_sort_visual the working data is a max-heap when the build
\* phase ends, and at every final [i] snapshot of the extraction phase
\* data[i] >= every element of data[0..i) and data[i..n) is non-decreasing.
C25_HeapBuiltAndExtracted ==
    applied = "heap_sort_visual" =>
        /\ IsMaxHeap(HeapBuildData(input))
        /\ \A k \in 1..Len(snapshots) :
               ("final" \in DOMAIN snapshots[k]
                    /\ "heap_level" \in DOMAIN snapshots[k]) =>
                   LET i == snapshots[k].final[1]
                       d == snapshots[k].data
                   IN  /\ \A j \in 0..(i - 1) : At(d, i) >= At(d, j)
                       /\ IsSorted(SubSeq(d, i + 1, Len(d)))

\* The indices a snapshot reports: the elements of its list fields and the
\* values of its scalar index fields.
ReportedIndices(snap) ==
    UNION {{snap[f][k] : k \in 1..Len(snap[f])} :
              f \in DOMAIN snap \cap {"compare", "swap", "shift", "insert",
                                      "highlight", "final"}}
    \cup {snap[f] : f \in DOMAIN snap \cap {"min_candidate", "largest",
                                            "pivot", "pivot_placed"}}

\* C26: every index a snapshot of a step-emitting sort reports is a position
\* of that snapshot's data, 0 <= index < len(data), the empty input included.
C26_ReportedIndicesValid ==
    applied \in VisualSorts =>
        \A k \in 1..Len(snapshots) :
            \A x \in ReportedIndices(snapshots[k]) :
                0 <= x /\ x < Len(snapshots[k].data)

\* C27: with is_sorting true, the ticks of update eventually bring
\* is_sorting back to False, whatever start_sort, generate_data,
\* shuffle_data and reset_to_original calls came before: update has a
\* generator to advance (with none, a tick does nothing and is_sorting stays
\* as it is).
C27_SortingRunCanEnd == is_sorting => sort_generator.state # "none"

\* Once is_sorting is true with no generator left, no operation of the
\* driver makes it false again.
SortingStuckForGood ==
    [][(is_sorting /\ sort_generator.state = "none") => is_sorting']_vars

\* C28: whenever no run is active (is_sorting is False), SortData.data is a
\* permutation of SortData.original_data.
C28_DataPermutationOfOriginal ==
    ~is_sorting => IsPermutation(data, original_data)

\* The step-emitting sorts that move elements by exchanges only.
SwapBasedSorts ==
    {"selection_sort_visual", "bubble_sort_visual", "quick_sort_visual",
     "heap_sort_visual", "comb_sort_visual"}

\* The positions in which two lists of the same length differ.
DifferingPositions(a, b) == {k \in 1..Len(a) : a[k] # b[k]}

\* C29: in the swap-based step-emitting sorts every snapshot, not only the
\* last, has data that is a permutation of the input, and the data of two
\* consecutive snapshots differ in at most two positions.
C29_EverySnapshotPermutation ==
    applied \in SwapBasedSorts =>
        /\ \A k \in 1..Len(snapshots) : IsPermutation(snapshots[k].data, input)
        /\ \A k \in 2..Len(snapshots) :
               Cardinality(DifferingPositions(snapshots[k - 1].data,
                                              snapshots[k].data)) <= 2

\* A run of comb_sort_visual on four elements in which a snapshot before the
\* last differs from the one before it in two positions and from the input.
C29_Witness ==
    /\ applied = "comb_sort_visual"
    /\ Len(input) = 4
    /\ \E k \in 2..(Len(snapshots) - 1) :
           /\ Cardinality(DifferingPositions(snapshots[k - 1].data,
                                             snapshots[k].data)) = 2
           /\ snapshots[k].data # input
           /\ snapshots[k].data # LastSnapshot.data

\* The step-emitting sorts whose compare snapshots carry two indices.
PairComparingSorts ==
    {"selection_sort_visual", "bubble_sort_visual", "merge_sort_visual",
     "quick_sort_visual", "heap_sort_visual", "comb_sort_visual"}

\* What the algorithm does after the comparison reported by snap (compare
\* [a, b]), read off the snapshot nxt that follows it, is what comparing
\* snap.data[a] with snap.data[b] decides.
DecisionFollowsSnapshot(name, snap, nxt) ==
    LET a == snap.compare[1]
        b == snap.compare[2]
        va == At(snap.data, a)
        vb == At(snap.data, b)
    IN  CASE name = "selection_sort_visual" ->
                 ("min_candidate" \in DOMAIN nxt /\ nxt.min_candidate = b)
                     <=> (vb < va)
          [] name \in {"bubble_sort_visual", "comb_sort_visual"} ->
                 ("swap" \in DOMAIN nxt /\ nxt.swap = <<a, b>>) <=> (va > vb)
          [] name = "heap_sort_visual" ->
                 ("largest" \in DOMAIN nxt /\ nxt.largest = b) <=> (vb > va)
          [] name = "quick_sort_visual" ->
                 ("swap" \in DOMAIN nxt /\ "pivot_placed" \notin DOMAIN nxt)
                     => (va <= vb)
          [] name = "merge_sort_visual" ->
                 /\ "insert" \in DOMAIN nxt
                 /\ At(nxt.data, nxt.insert[1]) = IF va <= vb THEN va ELSE vb

\* C30: in every compare snapshot carrying two indices [a, b] the values the
\* algorithm compares at that step are snapshot.data[a] and snapshot.data[b]:
\* its next decision is the one those two values give.
C30_CompareShowsComparedValues ==
    applied \in PairComparingSorts =>
        \A k \in 1..(Len(snapshots) - 1) :
            ("compare" \in DOMAIN snapshots[k] /\ Len(snapshots[k].compare) = 2)
                => DecisionFollowsSnapshot(applied, snapshots[k], snapshots[k + 1])

====
